---------------------------- MODULE Spec2Model ----------------------------
(***************************************************************************)
(* Citation and bibliography subsystem of latex-rs (src/src/references.rs) *)
(* and its use in examples/references.rs.                                  *)
(*                                                                         *)
(* A Rust String / &str is a finite sequence of characters; a character is *)
(* a one-character TLA+ string, so "\\" is the backslash and "\n" the line *)
(* feed.                                                                   *)
(***************************************************************************)
EXTENDS Integers, Sequences, FiniteSets, TLC

VARIABLES
    declared,      \* the token list given to one bibliography! invocation
    consts,        \* the `pub const $name: Citation` items it generates
    BIBLIOGRAPHY,  \* the `pub const BIBLIOGRAPHY` it generates (the slice .0)
    call,          \* the call of the library made last, with its arguments
    ret,           \* what that call returned
    fs,            \* the file system: path -> the file there, or NoFile
    threads        \* the calls in progress on the threads of SpecThreads

vars == <<declared, consts, BIBLIOGRAPHY, call, ret, fs, threads>>

(***************************************************************************)
(* Bounds of the model.                                                    *)
(***************************************************************************)
MaxLen == 1        \* longest field of a Citation in SpecEntry
MaxEntries == 2    \* most declarations in one bibliography! invocation
MaxGroup == 2      \* longest slice handed to Citations
MaxPairs == 2      \* most (text, citation) pairs handed to cited!

(***************************************************************************)
(* Strings.                                                                *)
(***************************************************************************)
EmptyString == << >>

\* String::push_str / String::push: append to the end of the buffer.
push_str(buf, s) == buf \o s

\* The sequences over S of length n at most.
SeqsUpTo(S, n) == UNION { [1..k -> S] : k \in 0..n }

\* The characters the fields of SpecEntry are made of: for each field a plain
\* letter and two of the characters BibTeX and format! give a meaning to.
KeyChar == { "k", "}", "," }
AuthorChar == { "u", "{", "\n" }
TitleChar == { "t", "}", "\n" }
YearChar == { "1", "{", "," }

Strs(chars) == SeqsUpTo(chars, MaxLen)

(***************************************************************************)
(* format!: the format string is scanned left to right; "{{" and "}}" are  *)
(* the escaped braces, "{name}" a named argument and "{}" the next         *)
(* positional argument.  An argument of type &str is written by Display,   *)
(* which writes its characters as they are.                                *)
(***************************************************************************)
Lit(c) == [isArg |-> FALSE, lit |-> c, name |-> << >>]
Arg(n) == [isArg |-> TRUE, lit |-> "", name |-> n]

RECURSIVE CloseBrace(_, _)
CloseBrace(s, i) == IF s[i] = "}" THEN i ELSE CloseBrace(s, i + 1)

RECURSIVE ParseFrom(_, _)
ParseFrom(s, i) ==
    IF i > Len(s) THEN << >>
    ELSE IF s[i] = "{"
         THEN IF s[i + 1] = "{"
              THEN <<Lit("{")>> \o ParseFrom(s, i + 2)
              ELSE LET j == CloseBrace(s, i + 1)
                   IN  <<Arg(SubSeq(s, i + 1, j - 1))>> \o ParseFrom(s, j + 1)
         ELSE IF s[i] = "}"
              THEN <<Lit("}")>> \o ParseFrom(s, i + 2)
              ELSE <<Lit(s[i])>> \o ParseFrom(s, i + 1)

ParseFormat(s) == ParseFrom(s, 1)

DisplayStr(s) == s

\* named: a function from argument names to values; positional: a sequence.
RECURSIVE Render(_, _, _, _, _)
Render(pieces, i, named, positional, next) ==
    IF i > Len(pieces) THEN EmptyString
    ELSE LET p == pieces[i]
         IN  IF ~p.isArg
             THEN <<p.lit>> \o Render(pieces, i + 1, named, positional, next)
             ELSE IF p.name = << >>
                  THEN DisplayStr(positional[next])
                       \o Render(pieces, i + 1, named, positional, next + 1)
                  ELSE DisplayStr(named[p.name])
                       \o Render(pieces, i + 1, named, positional, next)

Format(pieces, named, positional) == Render(pieces, 1, named, positional, 1)

NoNamed == [n \in {} |-> EmptyString]

(***************************************************************************)
(* Citation, CitationType.                                                 *)
(***************************************************************************)
CitationType == { "Article" }

Citation(key, citation_type, title, author, year) ==
    [key |-> key, citation_type |-> citation_type, title |-> title,
     author |-> author, year |-> year]

ArticleFormat ==
    <<"@", "a", "r", "t", "i", "c", "l", "e", "{", "{", "{", "k", "e", "y",
      "}", ",", "\n", "a", "u", "t", "h", "o", "r", "=", "{", "{", "{", "a",
      "u", "t", "h", "o", "r", "}", "}", "}", ",", "\n", "t", "i", "t", "l",
      "e", "=", "{", "{", "{", "t", "i", "t", "l", "e", "}", "}", "}", ",",
      "\n", "y", "e", "a", "r", "=", "{", "{", "{", "y", "e", "a", "r", "}",
      "}", "}", "\n", "}", "}">>

ArticlePieces == ParseFormat(ArticleFormat)

KeyArg == <<"k", "e", "y">>
AuthorArg == <<"a", "u", "t", "h", "o", "r">>
TitleArg == <<"t", "i", "t", "l", "e">>
YearArg == <<"y", "e", "a", "r">>

ArgNames == { KeyArg, AuthorArg, TitleArg, YearArg }

\* A slip in the named arguments: author and title bound to each other's field.
to_bib_entry_swapped(self) ==
    Format(ArticlePieces,
           [n \in ArgNames |->
               IF n = KeyArg THEN self.key
               ELSE IF n = AuthorArg THEN self.title
               ELSE IF n = TitleArg THEN self.author
               ELSE self.year],
           << >>)

\* Citation::to_bib_entry
to_bib_entry(self) ==
    CASE self.citation_type = "Article" ->
        Format(ArticlePieces,
               [n \in ArgNames |->
                   IF n = KeyArg THEN self.key
                   ELSE IF n = AuthorArg THEN self.author
                   ELSE IF n = TitleArg THEN self.title
                   ELSE self.year],
               << >>)

CiteFormat == <<"\\", "c", "i", "t", "e", "{", "{", "{", "}", "}", "}">>

CitePieces == ParseFormat(CiteFormat)

\* A slip in the argument: the marker built from the title.
CitationCiteTitle(self) == Format(CitePieces, NoNamed, <<self.title>>)

\* impl Cite for Citation
CitationCite(self) == Format(CitePieces, NoNamed, <<self.key>>)

(***************************************************************************)
(* Citations and the Cite trait.                                           *)
(***************************************************************************)
\* A slip in the loop: the keys joined by commas, as \cite itself would take.
RECURSIVE CitationsLoopJoined(_, _, _)
CitationsLoopJoined(slice, i, citations) ==
    IF i > Len(slice) THEN citations
    ELSE CitationsLoopJoined(slice, i + 1,
             push_str(IF i > 1 THEN push_str(citations, <<",">>) ELSE citations,
                      CitationCite(slice[i])))

\* for citation in self.0 { citations.push_str(&citation.cite()); }
RECURSIVE CitationsLoop(_, _, _)
CitationsLoop(slice, i, citations) ==
    IF i > Len(slice) THEN citations
    ELSE CitationsLoop(slice, i + 1, push_str(citations, CitationCite(slice[i])))

\* impl Cite for Citations
CitationsCite(self) == CitationsLoop(self, 1, EmptyString)

\* A value that implements Cite: one Citation, or Citations over a slice.
One(c) == [kind |-> "Citation", items |-> <<c>>]
Many(slice) == [kind |-> "Citations", items |-> slice]

\* Cite::cite, dispatched on the type of the receiver.
Cite(c) ==
    IF c.kind = "Citation" THEN CitationCite(c.items[1])
    ELSE CitationsCite(c.items)

(***************************************************************************)
(* bibliography!                                                           *)
(***************************************************************************)
Names == { "CITATION1", "CITATION2", "CITATION3" }

Decl(name, citation) == [name |-> name, citation |-> citation]

\* A change of the expansion: BIBLIOGRAPHY filled last declaration first, as
\* a macro that recurses on its first declaration would fill it.
bibliography_reversed(decls) ==
    LET item(n) == decls[CHOOSE i \in 1..Len(decls) : decls[i].name = n].citation
        names == { decls[i].name : i \in 1..Len(decls) }
    IN  [consts |-> [n \in names |-> item(n)],
         LEN |-> Len(decls),
         BIBLIOGRAPHY |-> [i \in 1..Len(decls) |->
                              item(decls[Len(decls) + 1 - i].name)]]

\* One repetition of `pub const $name: Citation = $citation;` per declaration,
\* then LEN over [$($name),*] and BIBLIOGRAPHY over &[$($name),*], each $name
\* there being a use of the constant of that name.
bibliography(decls) ==
    LET item(n) == decls[CHOOSE i \in 1..Len(decls) : decls[i].name = n].citation
        names == { decls[i].name : i \in 1..Len(decls) }
    IN  [consts |-> [n \in names |-> item(n)],
         LEN |-> Len(decls),
         BIBLIOGRAPHY |-> [i \in 1..Len(decls) |-> item(decls[i].name)]]

\* Two items of one name do not compile: the names of an invocation differ.
DistinctNames(decls) ==
    \A i, j \in 1..Len(decls) : decls[i].name = decls[j].name => i = j

(***************************************************************************)
(* Bibliography.                                                           *)
(***************************************************************************)
FilecontentsBegin ==
    <<"\\", "b", "e", "g", "i", "n", "{", "f", "i", "l", "e", "c", "o", "n",
      "t", "e", "n", "t", "s", "*", "}", "{", "m", "a", "i", "n", ".", "b",
      "i", "b", "}", "\n">>

FilecontentsEnd ==
    <<"\\", "e", "n", "d", "{", "f", "i", "l", "e", "c", "o", "n", "t", "e",
      "n", "t", "s", "*", "}", "\n">>

\* A slip in the loop: the line feed after an entry left out.
RECURSIVE EntriesLoopNoNewline(_, _, _)
EntriesLoopNoNewline(slice, i, buf) ==
    IF i > Len(slice) THEN buf
    ELSE EntriesLoopNoNewline(slice, i + 1, push_str(buf, to_bib_entry(slice[i])))

\* A change of the loop: an entry whose key was written before is skipped.
RECURSIVE EntriesLoopDedup(_, _, _)
EntriesLoopDedup(slice, i, buf) ==
    IF i > Len(slice) THEN buf
    ELSE EntriesLoopDedup(slice, i + 1,
             IF \E j \in 1..(i - 1) : slice[j].key = slice[i].key THEN buf
             ELSE push_str(push_str(buf, to_bib_entry(slice[i])), <<"\n">>))

\* for citation in self.0 { buf.push_str(&citation.to_bib_entry()); buf.push('\n'); }
RECURSIVE EntriesLoop(_, _, _)
EntriesLoop(slice, i, buf) ==
    IF i > Len(slice) THEN buf
    ELSE EntriesLoop(slice, i + 1,
                     push_str(push_str(buf, to_bib_entry(slice[i])), <<"\n">>))

\* Bibliography::to_filecontents
to_filecontents(self) ==
    push_str(EntriesLoop(self, 1, push_str(EmptyString, FilecontentsBegin)),
             FilecontentsEnd)

\* impl Into<String> for &Bibliography
Into(self) == EntriesLoop(self, 1, EmptyString)

\* impl ToString for Bibliography
to_string(self) == Into(self)

(***************************************************************************)
(* cited!                                                                  *)
(***************************************************************************)
Pair(text, citation) == [text |-> text, citation |-> citation]

\* A slip in the repetition: the marker pushed before its text.
RECURSIVE CitedLoopMarkerFirst(_, _, _)
CitedLoopMarkerFirst(pairs, i, cited_string) ==
    IF i > Len(pairs) THEN cited_string
    ELSE CitedLoopMarkerFirst(pairs, i + 1,
             push_str(push_str(cited_string, Cite(pairs[i].citation)),
                      pairs[i].text))

\* $( cited_string.push_str($text); cited_string.push_str(&*($citation.cite())); )*
RECURSIVE CitedLoop(_, _, _)
CitedLoop(pairs, i, cited_string) ==
    IF i > Len(pairs) THEN cited_string
    ELSE CitedLoop(pairs, i + 1,
                   push_str(push_str(cited_string, pairs[i].text),
                            Cite(pairs[i].citation)))

cited(pairs) == CitedLoop(pairs, 1, EmptyString)

(***************************************************************************)
(* The state.                                                              *)
(***************************************************************************)
NoFile == [exists |-> FALSE, content |-> << >>]
File(content) == [exists |-> TRUE, content |-> content]

\* The paths written to: in the working directory, in a directory the process
\* may not enter, in a directory that does not exist.
Paths == { "main.bib", "locked/main.bib", "missing/main.bib" }

Parent(file_name) ==
    CASE file_name = "main.bib" -> "ok"
      [] file_name = "locked/main.bib" -> "denied"
      [] file_name = "missing/main.bib" -> "missing"

Threads == { "t1", "t2" }
Idle == [pc |-> "idle", op |-> "none", self |-> << >>, pairs |-> << >>,
         i |-> 0, buf |-> EmptyString]

NoCall == [op |-> "none", self |-> << >>, pairs |-> << >>, file_name |-> "",
           old |-> << >>, creates |-> 0]
NoRet == [ok |-> TRUE, value |-> EmptyString, err |-> "none"]
Returned(s) == [ok |-> TRUE, value |-> s, err |-> "none"]
Failed(e) == [ok |-> FALSE, value |-> EmptyString, err |-> e]

InitialFs == [p \in Paths |-> NoFile]

\* The program after `bibliography! { decls }`, before any call.
Declared(decls) ==
    /\ declared = decls
    /\ consts = bibliography(decls).consts
    /\ BIBLIOGRAPHY = bibliography(decls).BIBLIOGRAPHY
    /\ call = NoCall
    /\ ret = NoRet

Constants == <<declared, consts, BIBLIOGRAPHY>>

(***************************************************************************)
(* SpecEntry: one declared Citation with arbitrary fields, cited and       *)
(* turned into its BibTeX entry.                                           *)
(***************************************************************************)
EntryPool ==
    { Citation(k, ty, t, a, y) :
        k \in Strs(KeyChar), ty \in CitationType, t \in Strs(TitleChar),
        a \in Strs(AuthorChar), y \in Strs(YearChar) }

InitEntry ==
    /\ \E e \in EntryPool : Declared(<<Decl("CITATION1", e)>>)
    /\ fs = InitialFs
    /\ threads = [t \in Threads |-> Idle]

\* The caller takes the value returned and goes on: the program makes its
\* calls one after the other.
Return ==
    /\ call # NoCall
    /\ call' = NoCall
    /\ ret' = NoRet
    /\ UNCHANGED <<Constants, fs, threads>>

\* $name.cite()
CallCitationCite ==
    /\ call = NoCall
    /\ \E name \in DOMAIN consts :
           /\ call' = [NoCall EXCEPT !.op = "Citation::cite", !.self = <<consts[name]>>]
           /\ ret' = Returned(Cite(One(consts[name])))
    /\ UNCHANGED <<Constants, fs, threads>>

\* $name.to_bib_entry()
CallToBibEntry ==
    /\ call = NoCall
    /\ \E name \in DOMAIN consts :
           /\ call' = [NoCall EXCEPT !.op = "to_bib_entry", !.self = <<consts[name]>>]
           /\ ret' = Returned(to_bib_entry(consts[name]))
    /\ UNCHANGED <<Constants, fs, threads>>

NextEntry ==
    \/ CallCitationCite
    \/ CallToBibEntry
    \/ Return

SpecEntry == InitEntry /\ [][NextEntry]_vars

(***************************************************************************)
(* The declarations of examples/references.rs, and a small pool of entries *)
(* in which two keys and two titles meet in every combination.             *)
(***************************************************************************)
key1 == <<"k", "e", "y", "1">>
key2 == <<"k", "e", "y", "2">>
title1 == <<"t", "i", "t", "l", "e", "1">>
title2 == <<"t", "i", "t", "l", "e", "2">>
author1 == <<"a", "u", "t", "h", "o", "r", "1">>
author2 == <<"a", "u", "t", "h", "o", "r", "2">>
year1 == <<"y", "e", "a", "r", "1">>
year2 == <<"y", "e", "a", "r", "2">>

CITATION1 == Citation(key1, "Article", title1, author1, year1)
CITATION2 == Citation(key2, "Article", title2, author2, year2)

ExampleDeclarations ==
    <<Decl("CITATION1", CITATION1), Decl("CITATION2", CITATION2)>>

SmallPool ==
    { Citation(k, "Article", t, author1, year1) :
        k \in { key1, key2 }, t \in { title1, title2 } }

Declarations ==
    { d \in SeqsUpTo({ Decl(n, e) : n \in Names, e \in SmallPool }, MaxEntries) :
        DistinctNames(d) }

\* The texts handed to cited!: none, and one with blanks at both ends.
Texts == { EmptyString, <<" ", "x", " ">> }

\* The slices a program can build from its constants: &[$name, ...].
Slices ==
    { [i \in 1..Len(names) |-> consts[names[i]]] :
        names \in SeqsUpTo(DOMAIN consts, MaxGroup) }

Citeables == { One(consts[n]) : n \in DOMAIN consts } \cup { Many(sl) : sl \in Slices }

(***************************************************************************)
(* The calls on Citations, the Bibliography and cited!.                    *)
(***************************************************************************)
\* Citations(&[...]).cite()
CallCitationsCite ==
    /\ call = NoCall
    /\ \E slice \in Slices :
           /\ call' = [NoCall EXCEPT !.op = "Citations::cite", !.self = slice]
           /\ ret' = Returned(Cite(Many(slice)))
    /\ UNCHANGED <<Constants, fs, threads>>

\* cited!(text, citation, ...)
CallCited ==
    /\ call = NoCall
    /\ \E pairs \in SeqsUpTo({ Pair(t, c) : t \in Texts, c \in Citeables }, MaxPairs) :
           /\ call' = [NoCall EXCEPT !.op = "cited!", !.pairs = pairs]
           /\ ret' = Returned(cited(pairs))
    /\ UNCHANGED <<Constants, fs, threads>>

\* BIBLIOGRAPHY.to_filecontents()
CallToFilecontents ==
    /\ call = NoCall
    /\ call' = [NoCall EXCEPT !.op = "to_filecontents", !.self = BIBLIOGRAPHY]
    /\ ret' = Returned(to_filecontents(BIBLIOGRAPHY))
    /\ UNCHANGED <<Constants, fs, threads>>

\* <&Bibliography as Into<String>>::into(&BIBLIOGRAPHY)
CallInto ==
    /\ call = NoCall
    /\ call' = [NoCall EXCEPT !.op = "into", !.self = BIBLIOGRAPHY]
    /\ ret' = Returned(Into(BIBLIOGRAPHY))
    /\ UNCHANGED <<Constants, fs, threads>>

\* BIBLIOGRAPHY.to_string()
CallToString ==
    /\ call = NoCall
    /\ call' = [NoCall EXCEPT !.op = "to_string", !.self = BIBLIOGRAPHY]
    /\ ret' = Returned(to_string(BIBLIOGRAPHY))
    /\ UNCHANGED <<Constants, fs, threads>>

(***************************************************************************)
(* SpecGroup: the example's declarations, cited in groups and through      *)
(* cited!.                                                                 *)
(***************************************************************************)
InitGroup ==
    /\ Declared(ExampleDeclarations)
    /\ fs = InitialFs
    /\ threads = [t \in Threads |-> Idle]

NextGroup ==
    \/ CallCitationsCite
    \/ CallCited
    \/ Return

SpecGroup == InitGroup /\ [][NextGroup]_vars

(***************************************************************************)
(* SpecBib: any declaration over the small pool, serialized and cited.     *)
(***************************************************************************)
InitBib ==
    /\ \E d \in Declarations : Declared(d)
    /\ fs = InitialFs
    /\ threads = [t \in Threads |-> Idle]

NextBib ==
    \/ CallToFilecontents
    \/ CallInto
    \/ CallToString
    \/ CallCitationsCite
    \/ Return

SpecBib == InitBib /\ [][NextBib]_vars

(***************************************************************************)
(* The file system under write_to_bib_file.  A path lies in the working    *)
(* directory, in a directory the process may not enter, or in a directory  *)
(* that does not exist; the program creates and removes no directory.      *)
(***************************************************************************)
OldContent == <<"%", " ", "o", "l", "d", "\n">>

WriteErrors == { "StorageFull", "WriteZero" }

\* A change of the open: a missing parent directory made on the way.
File_create_dirs(fsys, file_name) ==
    IF Parent(file_name) = "denied"
    THEN [ok |-> FALSE, err |-> "PermissionDenied", fs |-> fsys]
    ELSE [ok |-> TRUE, err |-> "none",
          fs |-> [fsys EXCEPT ![file_name] = File(EmptyString)]]

\* A change of the open: the file opened to append, its content kept.
File_create_append(fsys, file_name) ==
    IF Parent(file_name) = "missing"
    THEN [ok |-> FALSE, err |-> "NotFound", fs |-> fsys]
    ELSE IF Parent(file_name) = "denied"
         THEN [ok |-> FALSE, err |-> "PermissionDenied", fs |-> fsys]
         ELSE [ok |-> TRUE, err |-> "none",
               fs |-> [fsys EXCEPT ![file_name] = File(@.content)]]

\* File::create: the file is made, or cut to no content if there is one; the
\* open fails, and changes nothing, below a directory that is missing or may
\* not be entered.
File_create(fsys, file_name) ==
    IF Parent(file_name) = "missing"
    THEN [ok |-> FALSE, err |-> "NotFound", fs |-> fsys]
    ELSE IF Parent(file_name) = "denied"
         THEN [ok |-> FALSE, err |-> "PermissionDenied", fs |-> fsys]
         ELSE [ok |-> TRUE, err |-> "none",
               fs |-> [fsys EXCEPT ![file_name] = File(EmptyString)]]

\* Write::write_all: writes until the buffer is out; a write that fails ends
\* it with the bytes written so far in the file.  An empty buffer needs no
\* write.
write_all(content, buf) ==
    { [ok |-> TRUE, err |-> "none", content |-> content \o buf] }
    \cup { [ok |-> FALSE, err |-> e, content |-> content \o SubSeq(buf, 1, n)] :
             n \in 0..(Len(buf) - 1), e \in WriteErrors }

\* Bibliography::write_to_bib_file: what a call may return and leave behind.
\* Each `?` returns the error it meets as it is.
write_to_bib_file(self, fsys, file_name) ==
    LET file == File_create(fsys, file_name)
    IN  IF ~file.ok
        THEN { [ret |-> Failed(file.err), fs |-> file.fs, creates |-> 1] }
        ELSE { [ret |-> IF w.ok THEN Returned(EmptyString) ELSE Failed(w.err),
                fs |-> [file.fs EXCEPT ![file_name] = File(w.content)],
                creates |-> 1] :
                 w \in write_all(file.fs[file_name].content, Into(self)) }

\* BIBLIOGRAPHY.write_to_bib_file(file_name)
CallWriteToBibFile ==
    /\ call = NoCall
    /\ \E file_name \in Paths :
       \E out \in write_to_bib_file(BIBLIOGRAPHY, fs, file_name) :
           /\ call' = [NoCall EXCEPT !.op = "write_to_bib_file",
                                     !.self = BIBLIOGRAPHY,
                                     !.file_name = file_name,
                                     !.old = fs,
                                     !.creates = out.creates]
           /\ ret' = out.ret
           /\ fs' = out.fs
    /\ UNCHANGED <<Constants, threads>>

(***************************************************************************)
(* SpecFile: the example's declarations, or the first of them, or none,    *)
(* written to files.                                                       *)
(***************************************************************************)
InitFile ==
    /\ \E n \in 0..Len(ExampleDeclarations) :
           Declared(SubSeq(ExampleDeclarations, 1, n))
    /\ fs \in { f \in [Paths -> { NoFile, File(OldContent) }] :
                  \A p \in Paths : Parent(p) = "missing" => f[p] = NoFile }
    /\ threads = [t \in Threads |-> Idle]

NextFile ==
    \/ CallWriteToBibFile
    \/ Return

SpecFile == InitFile /\ [][NextFile]_vars

(***************************************************************************)
(* SpecThreads: the read-only calls run by several threads at once over    *)
(* the example's constants, one repetition of a call's loop at a step.     *)
(* Each call builds its String in a local of its own; the constants are    *)
(* only read.                                                              *)
(***************************************************************************)
ThreadCall(op, self, pairs) == [op |-> op, self |-> self, pairs |-> pairs]

\* The cited! calls of examples/references.rs, and the two in one call.
ExamplePairs ==
    LET text == <<" ", "x", " ">>
        one == Pair(text, One(consts["CITATION1"]))
        many == Pair(text, Many(<<consts["CITATION2"], consts["CITATION1"]>>))
    IN  { <<one>>, <<many>>, <<one, many>> }

ThreadCalls ==
    { ThreadCall(op, <<consts[n]>>, << >>) :
        op \in { "Citation::cite", "to_bib_entry" }, n \in DOMAIN consts }
    \cup { ThreadCall("Citations::cite", sl, << >>) : sl \in Slices }
    \cup { ThreadCall(op, BIBLIOGRAPHY, << >>) :
             op \in { "into", "to_string", "to_filecontents" } }
    \cup { ThreadCall("cited!", << >>, ps) : ps \in ExamplePairs }

\* The repetitions of the loop of a call.
Rounds(th) == IF th.op = "cited!" THEN Len(th.pairs) ELSE Len(th.self)

\* A change of the locals: one buffer shared by the calls in progress, the
\* call that steps pushing onto what the first of them has built.
LocalBufShared(ths, t) ==
    ths[CHOOSE u \in Threads :
            /\ ths[u].pc = "loop"
            /\ \A v \in Threads : ths[v].pc = "loop" => Len(ths[u].buf) >= Len(ths[v].buf)].buf

\* The String a call builds is a local of the call.
LocalBuf(ths, t) == ths[t].buf

\* The body of the loop of each call, at its i-th repetition.
Body(th, buf) ==
    CASE th.op = "Citation::cite" -> push_str(buf, CitationCite(th.self[th.i]))
      [] th.op = "to_bib_entry" -> push_str(buf, to_bib_entry(th.self[th.i]))
      [] th.op = "Citations::cite" -> push_str(buf, CitationCite(th.self[th.i]))
      [] th.op \in { "into", "to_string", "to_filecontents" } ->
             push_str(push_str(buf, to_bib_entry(th.self[th.i])), <<"\n">>)
      [] th.op = "cited!" ->
             push_str(push_str(buf, th.pairs[th.i].text), Cite(th.pairs[th.i].citation))

\* A thread enters a call: the String is made, and to_filecontents pushes
\* the first line of the envelope.
Enter(t, c) ==
    /\ threads[t].pc = "idle"
    /\ threads' = [threads EXCEPT ![t] =
           [pc |-> "loop", op |-> c.op, self |-> c.self, pairs |-> c.pairs, i |-> 1,
            buf |-> IF c.op = "to_filecontents"
                    THEN push_str(EmptyString, FilecontentsBegin)
                    ELSE EmptyString]]
    /\ UNCHANGED <<Constants, call, ret, fs>>

\* One repetition of the loop of the call of t.
Step(t) ==
    /\ threads[t].pc = "loop"
    /\ threads[t].i <= Rounds(threads[t])
    /\ threads' = [threads EXCEPT ![t].buf = Body(threads[t], LocalBuf(threads, t)),
                                  ![t].i = @ + 1]
    /\ UNCHANGED <<Constants, call, ret, fs>>

\* The loop is over: to_filecontents pushes the last line of the envelope,
\* and the call returns its String.
Leave(t) ==
    /\ threads[t].pc = "loop"
    /\ threads[t].i > Rounds(threads[t])
    /\ threads' = [threads EXCEPT
           ![t].pc = "done",
           ![t].buf = IF threads[t].op = "to_filecontents"
                      THEN push_str(LocalBuf(threads, t), FilecontentsEnd)
                      ELSE LocalBuf(threads, t)]
    /\ UNCHANGED <<Constants, call, ret, fs>>

\* The thread takes the String returned and is free for its next call.
Take(t) ==
    /\ threads[t].pc = "done"
    /\ threads' = [threads EXCEPT ![t] = Idle]
    /\ UNCHANGED <<Constants, call, ret, fs>>

InitThreads ==
    /\ Declared(ExampleDeclarations)
    /\ fs = InitialFs
    /\ threads = [t \in Threads |-> Idle]

NextThreads ==
    \E t \in Threads :
        \/ \E c \in ThreadCalls : Enter(t, c)
        \/ Step(t)
        \/ Leave(t)
        \/ Take(t)

SpecThreads == InitThreads /\ [][NextThreads]_vars

(***************************************************************************)
(* Properties of SpecEntry.                                                *)
(***************************************************************************)
ArticleOpen == <<"@", "a", "r", "t", "i", "c", "l", "e", "{">>
AuthorOpen == <<",", "\n", "a", "u", "t", "h", "o", "r", "=", "{">>
TitleOpen == <<"}", ",", "\n", "t", "i", "t", "l", "e", "=", "{">>
YearOpen == <<"}", ",", "\n", "y", "e", "a", "r", "=", "{">>
ArticleClose == <<"}", "\n", "}">>
CiteOpen == <<"\\", "c", "i", "t", "e", "{">>
CiteClose == <<"}">>

\* The BibTeX block and the marker the specification prescribes for an entry.
ArticleBlock(e) ==
    ArticleOpen \o e.key \o AuthorOpen \o e.author \o TitleOpen \o e.title
        \o YearOpen \o e.year \o ArticleClose
Marker(e) == CiteOpen \o e.key \o CiteClose

\* C5: to_bib_entry of an Article is "@article{" key ",\nauthor={" author
\* "},\ntitle={" title "},\nyear={" year "}\n}", every field taken as it is,
\* braces, commas and line feeds included, and the result does not end in a
\* line feed.
C5_ToBibEntryTemplate ==
    call.op = "to_bib_entry" =>
        LET e == call.self[1]
        IN  e.citation_type = "Article" =>
                /\ ret.ok
                /\ ret.value = ArticleBlock(e)
                /\ ret.value[Len(ret.value)] # "\n"

C5_Witness ==
    /\ call.op = "to_bib_entry"
    /\ call.self[1].citation_type = "Article"
    /\ call.self[1].key = <<"}">>
    /\ call.self[1].author = <<"{">>
    /\ call.self[1].title = <<"\n">>
    /\ call.self[1].year = <<",">>
    /\ ret.value = ArticleBlock(call.self[1])

\* C6: cite of an entry is "\cite{" key "}", and an entry of the same key and
\* another title, author or year cites the same.
C6_CiteIsKeyMarker ==
    call.op = "Citation::cite" =>
        LET e == call.self[1]
        IN  /\ ret.ok
            /\ ret.value = Marker(e)
            /\ \A other \in { EmptyString, <<"}", "\n">>, e.key \o <<"k">> } :
                /\ Cite(One([e EXCEPT !.title = other])) = ret.value
                /\ Cite(One([e EXCEPT !.author = other])) = ret.value
                /\ Cite(One([e EXCEPT !.year = other])) = ret.value

C6_Witness ==
    /\ call.op = "Citation::cite"
    /\ call.self[1].key = <<"k">>
    /\ call.self[1].title = <<"}">>
    /\ call.self[1].author = <<"u">>
    /\ ret.value = <<"\\", "c", "i", "t", "e", "{", "k", "}">>

(***************************************************************************)
(* Properties of SpecGroup and SpecBib.                                    *)
(***************************************************************************)
\* s[1] \o s[2] \o ... \o s[n], nothing between the parts.
RECURSIVE Flatten(_)
Flatten(parts) ==
    IF parts = << >> THEN << >> ELSE Head(parts) \o Flatten(Tail(parts))

Markers(slice) == Flatten([i \in 1..Len(slice) |-> Marker(slice[i])])

Blocks(slice) ==
    Flatten([i \in 1..Len(slice) |-> ArticleBlock(slice[i]) \o <<"\n">>])

Envelope(text) ==
    <<"\\", "b", "e", "g", "i", "n", "{", "f", "i", "l", "e", "c", "o", "n",
      "t", "e", "n", "t", "s", "*", "}", "{", "m", "a", "i", "n", ".", "b",
      "i", "b", "}", "\n">>
    \o text \o
    <<"\\", "e", "n", "d", "{", "f", "i", "l", "e", "c", "o", "n", "t", "e",
      "n", "t", "s", "*", "}", "\n">>

\* The places of s at which pat starts.
Occurrences(s, pat) ==
    { i \in 1..(Len(s) - Len(pat) + 1) : SubSeq(s, i, i + Len(pat) - 1) = pat }

\* C1: Citations over [e1,...,en] cites as e1.cite() e2.cite() ... en.cite(),
\* in this order and with nothing added; no entry gives the empty string and
\* one entry gives what the entry gives on its own.
C1_GroupIsConcatenation ==
    call.op = "Citations::cite" =>
        /\ ret.ok
        /\ ret.value = Markers(call.self)
        /\ Len(call.self) = 0 => ret.value = EmptyString
        /\ Len(call.self) = 1 => ret.value = Cite(One(call.self[1]))

C1_Witness ==
    /\ call.op = "Citations::cite"
    /\ call.self = <<CITATION2, CITATION1>>
    /\ ret.value = <<"\\", "c", "i", "t", "e", "{", "k", "e", "y", "2", "}",
                     "\\", "c", "i", "t", "e", "{", "k", "e", "y", "1", "}">>

\* C3: cited! over (t1,c1),...,(tn,cn) gives t1 c1.cite() ... tn cn.cite(): a
\* text is followed at once by the marker of its own pair, the pairs keep
\* their order, nothing is trimmed or put between, no pair gives the empty
\* string, whether ci is a Citation or Citations.
C3_CitedInterleaves ==
    call.op = "cited!" =>
        /\ ret.ok
        /\ ret.value =
             Flatten([i \in 1..Len(call.pairs) |->
                         call.pairs[i].text \o Markers(call.pairs[i].citation.items)])
        /\ Len(call.pairs) = 0 => ret.value = EmptyString

C3_Witness ==
    /\ call.op = "cited!"
    /\ call.pairs = <<Pair(<<" ", "x", " ">>, One(CITATION1)),
                      Pair(<<" ", "x", " ">>, Many(<<CITATION2, CITATION1>>))>>
    /\ ret.value = <<" ", "x", " ", "\\", "c", "i", "t", "e", "{", "k", "e", "y", "1", "}",
                     " ", "x", " ", "\\", "c", "i", "t", "e", "{", "k", "e", "y", "2", "}",
                     "\\", "c", "i", "t", "e", "{", "k", "e", "y", "1", "}">>

\* C2: the text form of a Bibliography over [e1,...,en] is e1.to_bib_entry()
\* "\n" ... en.to_bib_entry() "\n", and to_filecontents() is
\* "\begin{filecontents*}{main.bib}\n", that text, "\end{filecontents*}\n".
C2_SerializedForms ==
    /\ call.op \in { "into", "to_string" } =>
           ret.ok /\ ret.value = Blocks(call.self)
    /\ call.op = "to_filecontents" =>
           ret.ok /\ ret.value = Envelope(Blocks(call.self))

C2_Witness ==
    /\ call.op = "to_filecontents"
    /\ Len(call.self) = 2
    /\ call.self[1] # call.self[2]
    /\ ret.value = Envelope(ArticleBlock(call.self[1]) \o <<"\n">>
                            \o ArticleBlock(call.self[2]) \o <<"\n">>)

Orders(n) ==
    { f \in [1..n -> 1..n] : \A i, j \in 1..n : f[i] = f[j] => i = j }

\* C4: BIBLIOGRAPHY holds the declared entries, the i-th being the i-th
\* declared; the text form and the filecontents form have the i-th block at
\* the i-th place; the same declarations in another order give the same
\* blocks in that order, not sorted by key or name.
C4_DeclarationOrder ==
    /\ Len(BIBLIOGRAPHY) = Len(declared)
    /\ \A i \in 1..Len(declared) :
           /\ BIBLIOGRAPHY[i] = declared[i].citation
           /\ consts[declared[i].name] = declared[i].citation
    /\ LET entries == [i \in 1..Len(declared) |-> declared[i].citation]
       IN  /\ call.op \in { "into", "to_string" } => ret.value = Blocks(entries)
           /\ call.op = "to_filecontents" => ret.value = Envelope(Blocks(entries))
    /\ \A f \in Orders(Len(declared)) :
           LET other == [i \in 1..Len(declared) |-> declared[f[i]]]
               entries == [i \in 1..Len(declared) |-> declared[f[i]].citation]
               registry == bibliography(other).BIBLIOGRAPHY
           IN  /\ Into(registry) = Blocks(entries)
               /\ to_filecontents(registry) = Envelope(Blocks(entries))

C4_Witness ==
    /\ call.op = "to_string"
    /\ Len(declared) = 2
    /\ declared[1].name = "CITATION2" /\ declared[1].citation.key = key2
    /\ declared[2].name = "CITATION1" /\ declared[2].citation.key = key1
    /\ ret.value = ArticleBlock(declared[1].citation) \o <<"\n">>
                   \o ArticleBlock(declared[2].citation) \o <<"\n">>

\* C10: nothing is deduplicated: a registry of n entries serializes to n entry
\* blocks, two entries of one key both being written, without error, and
\* Citations naming an entry twice writes its marker twice.
C10_NoDeduplication ==
    /\ call.op \in { "into", "to_string", "to_filecontents" } =>
           /\ ret.ok
           /\ Cardinality(Occurrences(ret.value, ArticleOpen)) = Len(BIBLIOGRAPHY)
           /\ \A k \in { key1, key2 } :
                  Cardinality(Occurrences(ret.value, ArticleOpen \o k \o AuthorOpen))
                      = Cardinality({ i \in 1..Len(BIBLIOGRAPHY) : BIBLIOGRAPHY[i].key = k })
    /\ call.op = "Citations::cite" =>
           /\ ret.ok
           /\ \A k \in { key1, key2 } :
                  Cardinality(Occurrences(ret.value, CiteOpen \o k \o CiteClose))
                      = Cardinality({ i \in 1..Len(call.self) : call.self[i].key = k })

C10_Witness ==
    /\ call.op = "to_filecontents"
    /\ Len(BIBLIOGRAPHY) = 2
    /\ BIBLIOGRAPHY[1].key = key1 /\ BIBLIOGRAPHY[2].key = key1
    /\ BIBLIOGRAPHY[1].title # BIBLIOGRAPHY[2].title
    /\ Cardinality(Occurrences(ret.value, ArticleOpen \o key1 \o AuthorOpen)) = 2

(***************************************************************************)
(* Properties of SpecFile.                                                 *)
(***************************************************************************)
ProperPrefixes(text) == { SubSeq(text, 1, n) : n \in 0..(Len(text) - 1) }

CreateErrors == { "NotFound", "PermissionDenied" }

\* C7 as stated: after a call, either Ok and the file holds the whole text, or
\* an error after one attempt, and a failed call does not leave the file
\* holding a cut or partial version of the text.
C7_NoPartialWrite ==
    call.op = "write_to_bib_file" =>
        LET text == Blocks(BIBLIOGRAPHY)
            file == fs[call.file_name]
        IN  /\ call.creates = 1
            /\ ret.ok => file = File(text)
            /\ ~ret.ok =>
                   \/ fs = call.old
                   \/ ~(file.exists /\ file.content \in ProperPrefixes(text))

\* C7, amended: after a call, either Ok and the file holds the whole text in
\* place of what it held, or an error after one attempt; when the file could
\* not be created the file system is as before, and when a write failed the
\* file holds a proper prefix of the text, empty at the least, and no longer
\* what it held.
C7_WriteOutcomes ==
    call.op = "write_to_bib_file" =>
        LET text == Blocks(BIBLIOGRAPHY)
            file == fs[call.file_name]
        IN  /\ call.creates = 1
            /\ \A p \in Paths \ { call.file_name } : fs[p] = call.old[p]
            /\ ret.ok => file = File(text)
            /\ ~ret.ok =>
                   \/ ret.err \in CreateErrors /\ fs = call.old
                   \/ /\ ret.err \in WriteErrors
                      /\ file.exists
                      /\ file.content \in ProperPrefixes(text)

C7_Witness ==
    /\ call.op = "write_to_bib_file"
    /\ ~ret.ok
    /\ ret.err = "StorageFull"
    /\ call.old[call.file_name] = File(OldContent)
    /\ Len(BIBLIOGRAPHY) = 2
    /\ fs[call.file_name] = File(ArticleBlock(BIBLIOGRAPHY[1]))

\* C8: write_to_bib_file to a path whose parent directory does not exist
\* returns the I/O error of the open as it is, creates no file and leaves the
\* file system and the registry as they were.
C8_MissingDirectory ==
    (call.op = "write_to_bib_file" /\ Parent(call.file_name) = "missing") =>
        /\ ~ret.ok
        /\ ret.err = "NotFound"
        /\ ~fs[call.file_name].exists
        /\ fs = call.old
        /\ BIBLIOGRAPHY = call.self
        /\ \A i \in 1..Len(declared) : BIBLIOGRAPHY[i] = declared[i].citation

C8_Witness ==
    /\ call.op = "write_to_bib_file"
    /\ call.file_name = "missing/main.bib"
    /\ Len(BIBLIOGRAPHY) = 2
    /\ ret = Failed("NotFound")
    /\ fs["main.bib"] = File(OldContent)

(***************************************************************************)
(* Properties of SpecThreads.                                              *)
(***************************************************************************)
\* What a call returns when it runs alone.
Alone(th) ==
    CASE th.op = "Citation::cite" -> Marker(th.self[1])
      [] th.op = "to_bib_entry" -> ArticleBlock(th.self[1])
      [] th.op = "Citations::cite" -> Markers(th.self)
      [] th.op \in { "into", "to_string" } -> Blocks(th.self)
      [] th.op = "to_filecontents" -> Envelope(Blocks(th.self))
      [] th.op = "cited!" ->
             Flatten([i \in 1..Len(th.pairs) |->
                         th.pairs[i].text \o Markers(th.pairs[i].citation.items)])

C9_ReturnsAsAlone ==
    \A t \in Threads : threads[t].pc = "done" => threads[t].buf = Alone(threads[t])

C9_ConstantsKept ==
    /\ declared' = declared
    /\ consts' = consts
    /\ BIBLIOGRAPHY' = BIBLIOGRAPHY

\* C9: cite, to_bib_entry, to_filecontents, to_string and cited! leave every
\* entry and the registry as they are, and under any interleaving of such
\* calls by several threads each call returns what it returns alone.
C9_ReadOnlyCalls == [](C9_ReturnsAsAlone) /\ [][C9_ConstantsKept]_vars

C9_Witness ==
    /\ threads["t1"].pc = "done"
    /\ threads["t1"].op = "to_filecontents"
    /\ threads["t1"].buf = Envelope(Blocks(<<CITATION1, CITATION2>>))
    /\ threads["t2"].pc = "loop"
    /\ threads["t2"].op = "cited!"
    /\ threads["t2"].i = 2
    /\ Len(threads["t2"].pairs) = 2

=============================================================================
